---- MODULE Spec2Model ----
(***************************************************************************)
(* Model of the flight-delay insurance premium calculator                  *)
(* (src/pricing_model.py, class FlightInsurancePricingModel) and of the    *)
(* labelling rules of the data-preparation scripts.                        *)
(*                                                                         *)
(* Number representation.  Every multiplier of the tables has two          *)
(* decimals and is carried as an integer number of hundredths (44.99 is    *)
(* 4499).  A base premium is carried in thousandths (11.86 is 11860).      *)
(* The product of six multipliers is carried exactly, as a natural number  *)
(* of 10^-12 units written in base 10^4 (least significant limb first).    *)
(* The combined multiplier, the sixth root of that product, is carried in  *)
(* ten-thousandths, rounded down; a comparison of the root with a number   *)
(* of at most four decimals is therefore exact.  Arithmetic is that of the *)
(* reals: the last-bit error of the binary floating point of the source    *)
(* is not modelled.                                                        *)
(***************************************************************************)
EXTENDS Integers, Sequences, FiniteSets, TLC

(***************************************************************************)
(* Exact natural-number arithmetic on limbs in base 10^4.                  *)
(***************************************************************************)
LimbBase == 10 ^ 4

RECURSIVE BigNorm(_)
\* drop the leading (most significant) zero limbs
BigNorm(a) ==
    IF Len(a) > 0 /\ a[Len(a)] = 0 THEN BigNorm(SubSeq(a, 1, Len(a) - 1)) ELSE a

RECURSIVE BigFromNat(_)
BigFromNat(n) ==
    IF n = 0 THEN << >> ELSE <<n % LimbBase>> \o BigFromNat(n \div LimbBase)

RECURSIVE BigCarry(_, _, _)
\* propagate carries through a sequence of column sums, from limb i on
BigCarry(cols, i, carry) ==
    IF i > Len(cols)
    THEN BigFromNat(carry)
    ELSE LET v == cols[i] + carry
         IN  <<v % LimbBase>> \o BigCarry(cols, i + 1, v \div LimbBase)

RECURSIVE ColSum(_, _, _, _)
\* sum of a[i] * b[k + 1 - i] over the i from lo to hi
ColSum(a, b, k, i) ==
    IF i > Len(a) \/ i > k THEN 0
    ELSE (IF k + 1 - i <= Len(b) THEN a[i] * b[k + 1 - i] ELSE 0)
         + ColSum(a, b, k, i + 1)

BigMul(a, b) ==
    IF Len(a) = 0 \/ Len(b) = 0 THEN << >>
    ELSE BigNorm(BigCarry([k \in 1..(Len(a) + Len(b) - 1) |-> ColSum(a, b, k, 1)], 1, 0))

RECURSIVE BigCmpFrom(_, _, _)
\* compare two normal numbers of the same length from limb i down: -1, 0, 1
BigCmpFrom(a, b, i) ==
    IF i = 0 THEN 0
    ELSE IF a[i] < b[i] THEN -1
    ELSE IF a[i] > b[i] THEN 1
    ELSE BigCmpFrom(a, b, i - 1)

BigLeq(a, b) ==
    IF Len(a) # Len(b) THEN Len(a) < Len(b) ELSE BigCmpFrom(a, b, Len(a)) <= 0

BigPow6(a) ==
    LET a2 == BigMul(a, a)
        a3 == BigMul(a2, a)
    IN  BigMul(a3, a3)

RECURSIVE RootSearch(_, _, _)
\* the largest k in lo..hi with k^6 <= m, given lo^6 <= m
RootSearch(m, lo, hi) ==
    IF lo = hi THEN lo
    ELSE LET mid == (lo + hi + 1) \div 2
         IN  IF BigLeq(BigPow6(BigFromNat(mid)), m)
             THEN RootSearch(m, mid, hi)
             ELSE RootSearch(m, lo, mid - 1)


(***************************************************************************)
(* Python values.  A dict key is tagged with its type, so that the string  *)
(* 'default' and the integer hours can be keys of one dict; nan is the     *)
(* value NaT gives for weekday() and month, equal to no key.  An optional  *)
(* argument is << >> for None and <<v>> for the value v.                   *)
(***************************************************************************)
K_str(s) == <<"str", s>>
K_int(n) == <<"int", n>>
K_nan == <<"nan", 0>>

None == << >>
Some(v) == <<v>>

\* dict literal: the dict holding the (key, value) pairs
Dict(pairs) ==
    [k \in {p[1] : p \in pairs} |-> (CHOOSE p \in pairs : p[1] = k)[2]]

\* dict.get(key, dflt)
DictGet(d, key, dflt) == IF key \in DOMAIN d THEN d[key] ELSE dflt

(***************************************************************************)
(* FlightInsurancePricingModel.__init__ and _initialize_multipliers.       *)
(***************************************************************************)
airline_multipliers_init ==
    Dict({ <<K_str("SV"), 4499>>, <<K_str("PK"), 1667>>, <<K_str("E8"), 473>>,
           <<K_str("9C"), 413>>, <<K_str("KC"), 360>>,
           <<K_str("2P"), 327>>, <<K_str("OM"), 327>>, <<K_str("LV"), 300>>,
           <<K_str("BG"), 293>>, <<K_str("FM"), 293>>,
           <<K_str("MU"), 280>>, <<K_str("CZ"), 267>>, <<K_str("HU"), 253>>,
           <<K_str("3U"), 240>>, <<K_str("CA"), 227>>,
           <<K_str("MF"), 187>>, <<K_str("ZH"), 173>>, <<K_str("GS"), 160>>,
           <<K_str("PN"), 147>>, <<K_str("EU"), 133>>,
           <<K_str("JD"), 120>>, <<K_str("NS"), 107>>, <<K_str("GJ"), 93>>,
           <<K_str("KY"), 80>>, <<K_str("8L"), 67>>,
           <<K_str("default"), 67>> })

hour_multipliers_init ==
    Dict({ <<K_int(3), 364>>, <<K_int(0), 187>>, <<K_int(6), 193>>,
           <<K_int(11), 120>>, <<K_int(12), 113>>, <<K_int(13), 127>>,
           <<K_int(15), 127>>, <<K_int(17), 127>>, <<K_int(18), 120>>,
           <<K_int(19), 107>>, <<K_int(20), 120>>, <<K_int(21), 107>>,
           <<K_str("default"), 80>> })

day_multipliers_init ==
    Dict({ <<K_int(6), 120>>, <<K_int(4), 107>>, <<K_int(5), 100>>,
           <<K_int(0), 93>>, <<K_int(1), 93>>, <<K_int(2), 100>>,
           <<K_int(3), 73>> })

\* the season table with the multiplier of Fall entered as 0
season_multipliers_init_fall_zero ==
    Dict({ <<K_str("Summer"), 135>>, <<K_str("Winter"), 107>>,
           <<K_str("Spring"), 100>>, <<K_str("Fall"), 0>> })

season_multipliers_init ==
    Dict({ <<K_str("Summer"), 135>>, <<K_str("Winter"), 107>>,
           <<K_str("Spring"), 100>>, <<K_str("Fall"), 60>> })

airport_multipliers_init ==
    Dict({ <<K_str("SUB"), 780>>, <<K_str("DOH"), 387>>, <<K_str("ALA"), 347>>,
           <<K_str("LYA"), 333>>, <<K_str("SJW"), 333>>,
           <<K_str("PVG"), 307>>, <<K_str("ULN"), 287>>, <<K_str("TNA"), 247>>,
           <<K_str("YNT"), 240>>, <<K_str("WUS"), 220>>,
           <<K_str("default"), 100>> })

\* self.base_premium = 11.86, in thousandths
BasePremiumDefault == 11860
\* self.claim_amount = 800
ClaimAmount == 800

NewModel ==
    [ base_premium        |-> BasePremiumDefault,
      claim_amount        |-> ClaimAmount,
      airline_multipliers |-> airline_multipliers_init,
      hour_multipliers    |-> hour_multipliers_init,
      day_multipliers     |-> day_multipliers_init,
      season_multipliers  |-> season_multipliers_init,
      airport_multipliers |-> airport_multipliers_init ]

(***************************************************************************)
(* The five lookups.  m is the model instance (self).                      *)
(***************************************************************************)
\* the hard-coded fallback of get_day_multiplier and get_season_multiplier
NeutralMultiplier == 100

get_airline_multiplier(m, airline_code) ==
    DictGet(m.airline_multipliers, K_str(airline_code),
            m.airline_multipliers[K_str("default")])

get_hour_multiplier(m, hourKey) ==
    DictGet(m.hour_multipliers, hourKey, m.hour_multipliers[K_str("default")])

get_day_multiplier(m, dayKey) ==
    DictGet(m.day_multipliers, dayKey, NeutralMultiplier)

\* the mapping with November put in Winter
season_map_november_winter ==
    Dict({ <<K_int(12), "Winter">>, <<K_int(1), "Winter">>, <<K_int(2), "Winter">>,
           <<K_int(3), "Spring">>, <<K_int(4), "Spring">>, <<K_int(5), "Spring">>,
           <<K_int(6), "Summer">>, <<K_int(7), "Summer">>, <<K_int(8), "Summer">>,
           <<K_int(9), "Fall">>, <<K_int(10), "Fall">>, <<K_int(11), "Winter">> })

season_map ==
    Dict({ <<K_int(12), "Winter">>, <<K_int(1), "Winter">>, <<K_int(2), "Winter">>,
           <<K_int(3), "Spring">>, <<K_int(4), "Spring">>, <<K_int(5), "Spring">>,
           <<K_int(6), "Summer">>, <<K_int(7), "Summer">>, <<K_int(8), "Summer">>,
           <<K_int(9), "Fall">>, <<K_int(10), "Fall">>, <<K_int(11), "Fall">> })

\* season_map.get(month, 'Spring')
SeasonOfMonth(monthKey) == DictGet(season_map, monthKey, "Spring")

get_season_multiplier(m, monthKey) ==
    DictGet(m.season_multipliers, K_str(SeasonOfMonth(monthKey)), NeutralMultiplier)

\* the lookup with the fallback taken from the airline table
get_airport_multiplier_wrong_default(m, airport_code) ==
    DictGet(m.airport_multipliers, K_str(airport_code),
            m.airline_multipliers[K_str("default")])

get_airport_multiplier(m, airport_code) ==
    DictGet(m.airport_multipliers, K_str(airport_code),
            m.airport_multipliers[K_str("default")])

(***************************************************************************)
(* Dates.  A date string is the sequence of its characters.  to_datetime   *)
(* models pd.to_datetime on the strings the model feeds it: a string of    *)
(* the shape YYYY-MM-DD naming a calendar date gives that Timestamp, the   *)
(* empty string gives NaT, and any other string raises.                    *)
(***************************************************************************)
DigitChars == <<"0", "1", "2", "3", "4", "5", "6", "7", "8", "9">>

IsDigit(c) == \E i \in 1..10 : DigitChars[i] = c

DigitValue(c) == (CHOOSE i \in 1..10 : DigitChars[i] = c) - 1

RECURSIVE ParseNat(_)
\* the number a sequence of digit characters writes
ParseNat(cs) ==
    IF cs = << >> THEN 0
    ELSE 10 * ParseNat(SubSeq(cs, 1, Len(cs) - 1)) + DigitValue(cs[Len(cs)])

RECURSIVE FormatNat(_, _)
\* n written with exactly w digits
FormatNat(n, w) ==
    IF w = 0 THEN << >>
    ELSE FormatNat(n \div 10, w - 1) \o <<DigitChars[(n % 10) + 1]>>

IsLeap(y) == (y % 4 = 0) /\ ((y % 100 # 0) \/ (y % 400 = 0))

DaysInMonth(y, m) ==
    IF m = 2 THEN (IF IsLeap(y) THEN 29 ELSE 28)
    ELSE IF m \in {4, 6, 9, 11} THEN 30 ELSE 31

RECURSIVE DaysBeforeMonth(_, _)
DaysBeforeMonth(y, m) ==
    IF m = 1 THEN 0 ELSE DaysBeforeMonth(y, m - 1) + DaysInMonth(y, m - 1)

\* proleptic Gregorian ordinal: 0001-01-01 is day 1
ToOrdinal(y, m, d) ==
    (y - 1) * 365 + ((y - 1) \div 4) - ((y - 1) \div 100) + ((y - 1) \div 400)
    + DaysBeforeMonth(y, m) + d

IsIsoShape(s) ==
    /\ Len(s) = 10
    /\ s[5] = "-"
    /\ s[8] = "-"
    /\ \A i \in {1, 2, 3, 4, 6, 7, 9, 10} : IsDigit(s[i])

NaT == [nat |-> TRUE]

\* pd.to_datetime(flight_date): [raised |-> TRUE] or [raised |-> FALSE, value |-> ...]
to_datetime(s) ==
    IF s = << >> THEN [raised |-> FALSE, value |-> NaT]
    ELSE IF ~IsIsoShape(s) THEN [raised |-> TRUE]
    ELSE LET y == ParseNat(SubSeq(s, 1, 4))
             m == ParseNat(SubSeq(s, 6, 7))
             d == ParseNat(SubSeq(s, 9, 10))
         IN  IF y >= 1 /\ m \in 1..12 /\ d \in 1..DaysInMonth(y, m)
             THEN [raised |-> FALSE,
                   value |-> [nat |-> FALSE, year |-> y, month |-> m, day |-> d]]
             ELSE [raised |-> TRUE]

\* the weekday counted from Sunday = 0
weekday_from_sunday(ts) ==
    IF ts.nat THEN K_nan
    ELSE K_int(ToOrdinal(ts.year, ts.month, ts.day) % 7)

\* flight_date.weekday(): Monday is 0, Sunday is 6; nan for NaT
weekday(ts) ==
    IF ts.nat THEN K_nan
    ELSE K_int((ToOrdinal(ts.year, ts.month, ts.day) + 6) % 7)

\* flight_date.month; nan for NaT
month_of(ts) == IF ts.nat THEN K_nan ELSE K_int(ts.month)

\* a strftime that formats NaT as text instead of raising
strftime_nat_text(ts) ==
    IF ts.nat THEN [raised |-> FALSE, value |-> <<"N", "a", "T">>]
    ELSE [raised |-> FALSE,
          value |-> FormatNat(ts.year, 4) \o <<"-">> \o FormatNat(ts.month, 2)
                    \o <<"-">> \o FormatNat(ts.day, 2)]

\* flight_date.strftime('%Y-%m-%d'); NaT raises
strftime(ts) ==
    IF ts.nat THEN [raised |-> TRUE]
    ELSE [raised |-> FALSE,
          value |-> FormatNat(ts.year, 4) \o <<"-">> \o FormatNat(ts.month, 2)
                    \o <<"-">> \o FormatNat(ts.day, 2)]

\* the ISO string of a date, as a caller writes it
IsoDate(y, m, d) ==
    FormatNat(y, 4) \o <<"-">> \o FormatNat(m, 2) \o <<"-">> \o FormatNat(d, 2)

DayNames ==
    <<"Monday", "Tuesday", "Wednesday", "Thursday", "Friday", "Saturday", "Sunday">>

(***************************************************************************)
(* calculate_premium: the arithmetic.                                      *)
(***************************************************************************)
TenTo12 == BigMul(BigFromNat(10 ^ 6), BigFromNat(10 ^ 6))

\* the product with the arrival multiplier left out (taken as 1.00)
Product6_without_arrival(airline_mult, hour_mult, day_mult, season_mult, dept_mult, arr_mult) ==
    BigMul(BigMul(BigMul(BigFromNat(airline_mult), BigFromNat(hour_mult)),
                  BigMul(BigFromNat(day_mult), BigFromNat(season_mult))),
           BigMul(BigFromNat(dept_mult), BigFromNat(100)))

\* airline_mult * hour_mult * day_mult * season_mult * dept_mult * arr_mult,
\* in units of 10^-12
Product6(airline_mult, hour_mult, day_mult, season_mult, dept_mult, arr_mult) ==
    BigMul(BigMul(BigMul(BigFromNat(airline_mult), BigFromNat(hour_mult)),
                  BigMul(BigFromNat(day_mult), BigFromNat(season_mult))),
           BigMul(BigFromNat(dept_mult), BigFromNat(arr_mult)))

RECURSIVE RootCeiling(_, _)
\* the first of h, 2h, 4h, ... whose sixth power exceeds m
RootCeiling(m, h) ==
    IF BigLeq(BigPow6(BigFromNat(h)), m) THEN RootCeiling(m, 2 * h) ELSE h

\* np.power(p, 1/6) in ten-thousandths, rounded down: p is in units of
\* 10^-12, so the root in ten-thousandths is the sixth root of p * 10^12
SixthRoot(p) ==
    LET m == BigMul(p, TenTo12)
    IN  RootSearch(m, 0, RootCeiling(m, 1024) - 1)

\* the combination with the arrival multiplier taken twice and the
\* departure multiplier left out
CombinedMultiplier_arrival_twice(airline_mult, hour_mult, day_mult, season_mult, dept_mult, arr_mult) ==
    SixthRoot(Product6(airline_mult, hour_mult, day_mult, season_mult,
                       arr_mult, arr_mult))

CombinedMultiplier(airline_mult, hour_mult, day_mult, season_mult, dept_mult, arr_mult) ==
    SixthRoot(Product6(airline_mult, hour_mult, day_mult, season_mult,
                       dept_mult, arr_mult))

\* the thresholds 0.8 and 1.2 of the risk category, in ten-thousandths
LowRiskBelow == 8000
MediumRiskBelow == 12000

\* the risk category with both thresholds taken inclusively
RiskCategory_inclusive(combined_multiplier) ==
    IF combined_multiplier <= LowRiskBelow THEN "Low Risk"
    ELSE IF combined_multiplier <= MediumRiskBelow THEN "Medium Risk"
    ELSE "High Risk"

\* the risk category with the two comparisons turned round
RiskCategory_reversed(combined_multiplier) ==
    IF combined_multiplier > LowRiskBelow THEN "Low Risk"
    ELSE IF combined_multiplier > MediumRiskBelow THEN "Medium Risk"
    ELSE "High Risk"

RiskCategory(combined_multiplier) ==
    IF combined_multiplier < LowRiskBelow THEN "Low Risk"
    ELSE IF combined_multiplier < MediumRiskBelow THEN "Medium Risk"
    ELSE "High Risk"

\* the override ignored
PremiumBase_ignored(m, base_premium) == m.base_premium

\* base_premium if base_premium is not None else self.base_premium
PremiumBase(m, base_premium) ==
    IF base_premium # None THEN base_premium[1] ELSE m.base_premium

AbsInt(n) == IF n < 0 THEN 0 - n ELSE n

\* n / d rounded to the nearest integer, a tie to the even one (n >= 0, d > 0)
RoundHalfEven(n, d) ==
    LET q == n \div d
        r == n % d
    IN  IF 2 * r < d THEN q
        ELSE IF 2 * r > d THEN q + 1
        ELSE IF q % 2 = 0 THEN q ELSE q + 1

\* round(x, 2) of an amount x given in thousandths, in cents
RoundToCents(x) ==
    IF x < 0 THEN 0 - RoundHalfEven(0 - x, 10) ELSE RoundHalfEven(x, 10)

\* round(combined_multiplier, 3), in thousandths.  The root is known in
\* ten-thousandths rounded down; it is never a four-place decimal ending in
\* 5 (its sixth power would need more than twelve places), so there is no tie.
RoundToThousandths(combined_multiplier) == (combined_multiplier + 5) \div 10

\* round(mult, 3) of a multiplier in hundredths, in thousandths
RoundMultiplier(mult) == mult * 10

\* q - 1/2 <= b * p^(1/6) / 1000, for q cents, b thousandths and the
\* product p: the sixth powers of both sides, compared exactly
HalfReached(q, b, p) ==
    BigLeq(BigPow6(BigFromNat((2 * q - 1) * 1000)),
           BigMul(BigPow6(BigFromNat(2 * b)), p))

\* round(b * combined, 2) in cents for b >= 0 thousandths.  The amount lies
\* between b * c / 10^5 and b * (c + 1) / 10^5 cents, c being the root in
\* ten-thousandths rounded down; when the two round differently the exact
\* comparison decides.
RoundedAmount(b, c, p) ==
    LET lo == (2 * b * c + 100000) \div 200000
        hi == (2 * b * (c + 1) + 100000) \div 200000
    IN  IF lo = hi THEN lo
        ELSE IF HalfReached(hi, b, p) THEN hi ELSE lo

\* round(premium_base * combined_multiplier, 2), in cents
FinalPremium(premium_base, combined_multiplier, p) ==
    IF premium_base < 0
    THEN 0 - RoundedAmount(0 - premium_base, combined_multiplier, p)
    ELSE RoundedAmount(premium_base, combined_multiplier, p)

(***************************************************************************)
(* calculate_premium: the whole call, as the pair of what it leaves in its *)
(* frame (locals) and how it ends (outcome).  m is the model instance.     *)
(***************************************************************************)
Raised(e) == [kind |-> "raised", error |-> e]
Returned(v) == [kind |-> "returned", value |-> v]
NoOutcome == [kind |-> "none"]
NoLocals == [lookups |-> << >>]

\* lines 146-164: the combination of six multipliers, the base, the premium
\* and the category
Price(m, airline_mult, hour_mult, day_mult, season_mult, dept_mult, arr_mult, base_premium) ==
    LET product      == Product6(airline_mult, hour_mult, day_mult, season_mult,
                                 dept_mult, arr_mult)
        combined     == CombinedMultiplier(airline_mult, hour_mult, day_mult,
                                           season_mult, dept_mult, arr_mult)
        premium_base == PremiumBase(m, base_premium)
    IN  [ product             |-> product,
          combined_multiplier |-> combined,
          premium_base        |-> premium_base,
          final_premium       |-> FinalPremium(premium_base, combined, product),
          risk_category       |-> RiskCategory(combined) ]

\* lines 134-144: weekday and month of the date, and the six lookups
LookUp(m, airline_code, departure_airport, arrival_airport, ts, flight_hour) ==
    LET day_of_week == weekday(ts)
        month       == month_of(ts)
    IN  [ lookups      |-> <<"airline", "hour", "day", "season", "airport", "airport">>,
          flight_date  |-> ts,
          day_of_week  |-> day_of_week,
          month        |-> month,
          season       |-> SeasonOfMonth(month),
          airline_mult |-> get_airline_multiplier(m, airline_code),
          hour_mult    |-> get_hour_multiplier(m, K_int(flight_hour)),
          day_mult     |-> get_day_multiplier(m, day_of_week),
          season_mult  |-> get_season_multiplier(m, month),
          dept_mult    |-> get_airport_multiplier(m, departure_airport),
          arr_mult     |-> get_airport_multiplier(m, arrival_airport) ]

\* lines 146-164 on the multipliers looked up
PriceLookedUp(m, f, base_premium) ==
    f @@ Price(m, f.airline_mult, f.hour_mult, f.day_mult, f.season_mult,
               f.dept_mult, f.arr_mult, base_premium)

\* lines 134-164
Evaluate(m, airline_code, departure_airport, arrival_airport, ts, flight_hour, base_premium) ==
    PriceLookedUp(m, LookUp(m, airline_code, departure_airport, arrival_airport,
                            ts, flight_hour),
                  base_premium)

\* lines 166-187: the returned dict; strftime raises for NaT
BuildResult(f, airline_code, departure_airport, arrival_airport, flight_hour) ==
    LET date == strftime(f.flight_date)
    IN  IF date.raised THEN Raised("ValueError")
        ELSE Returned(
          [ premium             |-> f.final_premium,
            base_premium        |-> RoundToCents(f.premium_base),
            combined_multiplier |-> RoundToThousandths(f.combined_multiplier),
            risk_category       |-> f.risk_category,
            multipliers |->
              [ airline           |-> RoundMultiplier(f.airline_mult),
                hour              |-> RoundMultiplier(f.hour_mult),
                day               |-> RoundMultiplier(f.day_mult),
                season            |-> RoundMultiplier(f.season_mult),
                departure_airport |-> RoundMultiplier(f.dept_mult),
                arrival_airport   |-> RoundMultiplier(f.arr_mult) ],
            flight_details |->
              [ airline     |-> airline_code,
                departure   |-> departure_airport,
                arrival     |-> arrival_airport,
                date        |-> date.value,
                hour        |-> flight_hour,
                day_of_week |-> DayNames[f.day_of_week[2] + 1] ] ])

\* the instance after a call that stores its override as the new default
ModelAfterCall_stores_override(m, base_premium) ==
    IF base_premium # None THEN [m EXCEPT !.base_premium = base_premium[1]] ELSE m

\* the instance after a call that assigns the base it used to self.base_premium
ModelAfterCall_keeps_base_used(m, base_premium) ==
    [m EXCEPT !.base_premium = PremiumBase(m, base_premium)]

\* the instance after a call of calculate_premium: the call assigns no
\* attribute of self
ModelAfterCall(m, base_premium) == m

calculate_premium(m, airline_code, departure_airport, arrival_airport, flight_date, flight_hour, base_premium) ==
    LET parsed == to_datetime(flight_date)
    IN  IF parsed.raised
        THEN [locals |-> NoLocals, outcome |-> Raised("ValueError")]
        ELSE LET f == Evaluate(m, airline_code, departure_airport, arrival_airport,
                               parsed.value, flight_hour, base_premium)
             IN  [locals |-> f,
                  outcome |-> BuildResult(f, airline_code, departure_airport,
                                          arrival_airport, flight_hour)]

(***************************************************************************)
(* The state: one model instance and its caller.                           *)
(*   self     the FlightInsurancePricingModel instance                     *)
(*   pc       "idle" between calls, "returned" when a call has ended       *)
(*   call     the operation called last and its arguments                  *)
(*   locals   the frame the call left                                      *)
(*   outcome  how the call ended: a returned value or a raised error       *)
(*   threads  the calls of calculate_premium in progress on other threads  *)
(***************************************************************************)
VARIABLES self, pc, call, locals, outcome, threads

vars == <<self, pc, call, locals, outcome, threads>>

NoCall == [op |-> "none"]

\* the arguments the model calls calculate_premium with: every flight
\* without a base-premium override, and a few flights with each override
AirlineCodes == {"SV", "FM", "default", "ZZ"}
DepartureCodes == {"HKG", "SUB"}
ArrivalCodes == {"SUB", "PVG", "default"}
NotADate == <<"n", "o", "t", "-", "a", "-", "d", "a", "t", "e">>
FlightDates ==
    {IsoDate(2024, mo, 15) : mo \in 1..12}
    \cup {IsoDate(2024, 7, 21), IsoDate(2024, 2, 30), << >>, NotADate}
FlightHours == {3, 11, 14, 25}
BaseOverrides == {Some(0), Some(0 - 5000), Some(12344)}

Flights ==
    AirlineCodes \X DepartureCodes \X ArrivalCodes \X FlightDates \X FlightHours

OverrideFlights ==
    {"SV", "default"} \X {"HKG"} \X {"SUB", "default"}
    \X {IsoDate(2024, 7, 21), IsoDate(2024, 1, 15), << >>, NotADate}
    \X {3, 14, 0 - 1}

\* flights whose combined multiplier lies just below a threshold of the
\* risk category: 1.19971 and 1.19951
BoundaryFlights ==
    { <<"MF", "HKG", "default", IsoDate(2024, 7, 15), 13>>,
      <<"GJ", "HKG", "ULN", IsoDate(2024, 4, 15), 11>> }

PremiumCalls ==
    {<<f, None>> : f \in Flights \cup BoundaryFlights}
    \cup {<<f, b>> : f \in OverrideFlights, b \in BaseOverrides}

\* the threads that call calculate_premium on the one instance
NumThreads == 2

Threads == 1..NumThreads

IdleThread == [pc |-> "idle", call |-> NoCall, locals |-> NoLocals, outcome |-> NoOutcome]

NoThreads == [t \in Threads |-> IdleThread]

Init ==
    /\ self = NewModel
    /\ pc = "idle"
    /\ call = NoCall
    /\ locals = NoLocals
    /\ outcome = NoOutcome
    /\ threads = NoThreads

\* model.calculate_premium(...)
CalculatePremium ==
    /\ pc = "idle"
    /\ \E c \in PremiumCalls :
         \E r \in {calculate_premium(self, c[1][1], c[1][2], c[1][3], c[1][4],
                                     c[1][5], c[2])} :
             /\ call' = [ op                |-> "calculate_premium",
                          airline_code      |-> c[1][1],
                          departure_airport |-> c[1][2],
                          arrival_airport   |-> c[1][3],
                          flight_date       |-> c[1][4],
                          flight_hour       |-> c[1][5],
                          base_premium      |-> c[2] ]
             /\ locals' = r.locals
             /\ outcome' = r.outcome
             /\ self' = ModelAfterCall(self, c[2])
    /\ pc' = "returned"
    /\ UNCHANGED threads

\* a direct call of one of the five lookups
Lookup(op, key, value) ==
    /\ pc = "idle"
    /\ call' = [op |-> op, key |-> key]
    /\ locals' = NoLocals
    /\ outcome' = Returned(value)
    /\ pc' = "returned"
    /\ UNCHANGED <<self, threads>>

GetAirlineMultiplier ==
    \E code \in AirlineCodes \cup {"KY", "8L"} :
        Lookup("get_airline_multiplier", K_str(code), get_airline_multiplier(self, code))

GetHourMultiplier ==
    \E k \in {K_int(h) : h \in FlightHours \cup {0 - 1, 0, 6, 23, 24}} :
        Lookup("get_hour_multiplier", k, get_hour_multiplier(self, k))

GetDayMultiplier ==
    \E k \in {K_int(d) : d \in (0 - 1)..7} \cup {K_nan} :
        Lookup("get_day_multiplier", k, get_day_multiplier(self, k))

GetSeasonMultiplier ==
    \E k \in {K_int(mo) : mo \in 0..13} \cup {K_nan} :
        Lookup("get_season_multiplier", k, get_season_multiplier(self, k))

GetAirportMultiplier ==
    \E code \in DepartureCodes \cup ArrivalCodes \cup {"DOH", "ZZZ"} :
        Lookup("get_airport_multiplier", K_str(code), get_airport_multiplier(self, code))

\* model.get_pricing_recommendations(): the two fields read from the instance
get_pricing_recommendations(m) ==
    [base_premium |-> m.base_premium, claim_amount |-> m.claim_amount]

GetPricingRecommendations ==
    /\ pc = "idle"
    /\ call' = [op |-> "get_pricing_recommendations"]
    /\ locals' = NoLocals
    /\ outcome' = Returned(get_pricing_recommendations(self))
    /\ pc' = "returned"
    /\ UNCHANGED <<self, threads>>

\* demonstrate_pricing_model: the three example flights
example_flights ==
    << [ name |-> "Low-Risk Flight", airline |-> "default", departure |-> "HKG",
         arrival |-> "default", date |-> IsoDate(2024, 1, 15), hour |-> 14 ],
       [ name |-> "Medium-Risk Flight", airline |-> "FM", departure |-> "HKG",
         arrival |-> "PVG", date |-> IsoDate(2024, 7, 15), hour |-> 11 ],
       [ name |-> "High-Risk Flight", airline |-> "SV", departure |-> "HKG",
         arrival |-> "SUB", date |-> IsoDate(2024, 7, 21), hour |-> 3 ] >>

\* the loop of demonstrate_pricing_model on a new instance: each example is
\* priced without override and printed under its name; an error of a call
\* ends the function
demonstrate_pricing_model ==
    LET results == [i \in 1..Len(example_flights) |->
                      calculate_premium(NewModel, example_flights[i].airline,
                                        example_flights[i].departure,
                                        example_flights[i].arrival,
                                        example_flights[i].date,
                                        example_flights[i].hour, None).outcome]
    IN  IF \E i \in 1..Len(example_flights) : results[i].kind = "raised"
        THEN Raised("ValueError")
        ELSE Returned([i \in 1..Len(example_flights) |->
                         [ name   |-> example_flights[i].name,
                           result |-> results[i].value ]])

DemonstratePricingModel ==
    /\ pc = "idle"
    /\ call' = [op |-> "demonstrate_pricing_model"]
    /\ locals' = NoLocals
    /\ outcome' = demonstrate_pricing_model
    /\ pc' = "returned"
    /\ UNCHANGED <<self, threads>>

(***************************************************************************)
(* clean_and_prepare_data (src/flight_risk_analysis.py), for one row of    *)
(* the data frame.  A delay is in tenths of an hour; a raw delay is        *)
(* [kind |-> "num", value |-> d], or of kind "text" (not a number) or      *)
(* "missing".                                                              *)
(***************************************************************************)
NaN == [kind |-> "nan"]
Num(d) == [kind |-> "num", value |-> d]

\* pd.to_numeric(..., errors='coerce')
to_numeric(raw) == IF raw.kind = "num" THEN raw ELSE NaN

\* .fillna(0)
fillna0(v) == IF v.kind = "nan" THEN Num(0) ELSE v

prep_season_map ==
    Dict({ <<K_int(12), "Winter">>, <<K_int(1), "Winter">>, <<K_int(2), "Winter">>,
           <<K_int(3), "Spring">>, <<K_int(4), "Spring">>, <<K_int(5), "Spring">>,
           <<K_int(6), "Summer">>, <<K_int(7), "Summer">>, <<K_int(8), "Summer">>,
           <<K_int(9), "Fall">>, <<K_int(10), "Fall">>, <<K_int(11), "Fall">> })

\* Series.map(dict): a value that is no key maps to NaN
PrepSeason(monthKey) == DictGet(prep_season_map, monthKey, "NaN")

\* the claim threshold of 3 hours, in tenths of an hour
HighRiskDelay == 30

\* the label with a delay of exactly 3 hours counted as high risk
IsHighRisk_from_three_hours(delay_time, is_claim) ==
    (delay_time >= HighRiskDelay) \/ (is_claim = 1)

IsHighRisk(delay_time, is_claim) == (delay_time > HighRiskDelay) \/ (is_claim = 1)

\* pd.cut(delay_time, bins=[-inf, 0, 1, 2, 3, inf], labels=[...]): each bin
\* is open on the left and closed on the right
DelayCategory(delay_time) ==
    IF delay_time <= 0 THEN "No Delay"
    ELSE IF delay_time <= 10 THEN "0-1h"
    ELSE IF delay_time <= 20 THEN "1-2h"
    ELSE IF delay_time <= 30 THEN "2-3h"
    ELSE ">3h"

clean_and_prepare_data(row) ==
    LET delay_time == fillna0(to_numeric(row.delay_time)).value
        parsed == to_datetime(row.flight_date)
    IN  IF parsed.raised THEN Raised("ValueError")
        ELSE LET ts == parsed.value
                 is_high_risk == IsHighRisk(delay_time, row.is_claim)
             IN  Returned(
                   [ delay_time     |-> delay_time,
                     flight_date    |-> ts,
                     month          |-> month_of(ts),
                     day_of_week    |-> weekday(ts),
                     season         |-> PrepSeason(month_of(ts)),
                     is_claim       |-> row.is_claim,
                     is_high_risk   |-> is_high_risk,
                     risk_category  |-> IF is_high_risk THEN "High Risk" ELSE "Low Risk",
                     delay_category |-> DelayCategory(delay_time) ])

RawDelays ==
    {Num(d) : d \in {0 - 5, 0, 5, 10, 15, 20, 30, 31, 45}}
    \cup {[kind |-> "text"], [kind |-> "missing"]}

\* the values of the column is_claim: no claim, a claim flagged by 1, and a
\* claim entered as the amount paid
ClaimValues == {0, 1, ClaimAmount}

CleanAndPrepareData ==
    /\ pc = "idle"
    /\ \E raw \in RawDelays, flight_date \in FlightDates, is_claim \in ClaimValues :
         LET row == [delay_time |-> raw, flight_date |-> flight_date,
                     is_claim |-> is_claim]
         IN  /\ call' = [op |-> "clean_and_prepare_data", row |-> row]
             /\ outcome' = clean_and_prepare_data(row)
    /\ locals' = NoLocals
    /\ pc' = "returned"
    /\ UNCHANGED <<self, threads>>

(***************************************************************************)
(* statistical_analysis (src/statistical_evidence.py): the time-of-day     *)
(* category of one row of the data frame and its place in the contingency  *)
(* table of the hour test.                                                 *)
(***************************************************************************)
\* pd.cut(x, bins=bins, labels=labels): bin i is open on the left and
\* closed on the right, and a value in no bin gets NaN
pd_cut(x, bins, labels) ==
    IF \E i \in 1..Len(labels) : bins[i] < x /\ x <= bins[i + 1]
    THEN labels[CHOOSE i \in 1..Len(labels) : bins[i] < x /\ x <= bins[i + 1]]
    ELSE "NaN"

hour_bins == <<0, 6, 12, 18, 24>>

hour_labels ==
    <<"Early Morning (0-6)", "Morning (6-12)", "Afternoon (12-18)", "Evening (18-24)">>

\* df['hour_category']
hour_category(std_hour) == pd_cut(std_hour, hour_bins, hour_labels)

\* pd.crosstab(df['hour_category'], df['is_high_risk']) for one row: the
\* cell the row is counted in, or no cell for a row whose category is NaN
hour_contingency(row) ==
    IF hour_category(row.std_hour) = "NaN" THEN None
    ELSE Some(<<hour_category(row.std_hour), row.is_high_risk>>)

\* the departure hours of the data
StdHours == 0..23

HourCategory ==
    /\ pc = "idle"
    /\ \E h \in StdHours, risk \in BOOLEAN :
         LET row == [std_hour |-> h, is_high_risk |-> risk]
         IN  /\ call' = [op |-> "hour_category", row |-> row]
             /\ outcome' = Returned([ hour_category |-> hour_category(h),
                                      cell          |-> hour_contingency(row) ])
    /\ locals' = NoLocals
    /\ pc' = "returned"
    /\ UNCHANGED <<self, threads>>

(***************************************************************************)
(* statistical_analysis as a whole, on a data frame described by the       *)
(* number of its rows per airline.  The frame of the function is the       *)
(* function from the names of its local variables that are bound to their  *)
(* values; a statistic is the record naming the test and the table it was  *)
(* computed from, its numeric value being left open.  The data frames      *)
(* drawn have rows of both risk classes, so that each test that runs       *)
(* computes.                                                               *)
(***************************************************************************)
\* airline_counts >= 100
MinAirlineFlights == 100

\* significant_airlines: the airlines with at least 100 rows
significant_airlines(airline_counts) ==
    {a \in DOMAIN airline_counts : airline_counts[a] >= MinAirlineFlights}

Statistic(test, value, table) == [test |-> test, value |-> value, of |-> table]

\* lines 26-40: the airline test, run for two significant airlines or more
AirlineTest(airline_counts) ==
    IF Cardinality(significant_airlines(airline_counts)) >= 2
    THEN [ contingency_table |-> [table |-> "Airline",
                                  rows |-> significant_airlines(airline_counts)],
           chi2     |-> Statistic("chi2_contingency", "chi2", "Airline"),
           p_value  |-> Statistic("chi2_contingency", "p", "Airline"),
           dof      |-> Statistic("chi2_contingency", "dof", "Airline"),
           expected |-> Statistic("chi2_contingency", "expected", "Airline") ]
    ELSE << >>

\* lines 47-105: the tests of hour, weekday, season and delay, each run
\* unconditionally
OtherTests ==
    [ hour_contingency   |-> [table |-> "hour_category"],
      chi2_hour          |-> Statistic("chi2_contingency", "chi2", "hour_category"),
      p_value_hour       |-> Statistic("chi2_contingency", "p", "hour_category"),
      dow_contingency    |-> [table |-> "day_of_week"],
      chi2_dow           |-> Statistic("chi2_contingency", "chi2", "day_of_week"),
      p_value_dow        |-> Statistic("chi2_contingency", "p", "day_of_week"),
      season_contingency |-> [table |-> "season"],
      chi2_season        |-> Statistic("chi2_contingency", "chi2", "season"),
      p_value_season     |-> Statistic("chi2_contingency", "p", "season"),
      statistic          |-> Statistic("mannwhitneyu", "U", "delay_time"),
      p_value_delay      |-> Statistic("mannwhitneyu", "p", "delay_time") ]

\* the local names read by the effect sizes (lines 124-127) and by the
\* returned dict (lines 140-146), in the order they are read
NamesRead ==
    << "contingency_table", "hour_contingency", "dow_contingency",
       "season_contingency", "chi2", "p_value", "chi2_hour", "p_value_hour",
       "chi2_dow", "p_value_dow", "chi2_season", "p_value_season",
       "statistic", "p_value_delay" >>

\* a read of a local name that is not bound raises UnboundLocalError
ReadsUnbound(frame) == \E i \in 1..Len(NamesRead) : NamesRead[i] \notin DOMAIN frame

statistical_analysis(df) ==
    LET frame == AirlineTest(df.airline_counts) @@ OtherTests
    IN  IF ReadsUnbound(frame)
        THEN [locals |-> frame, outcome |-> Raised("UnboundLocalError")]
        ELSE [locals |-> frame,
              outcome |-> Returned(
                [ airline_test |-> <<frame.chi2, frame.p_value>>,
                  hour_test    |-> <<frame.chi2_hour, frame.p_value_hour>>,
                  dow_test     |-> <<frame.chi2_dow, frame.p_value_dow>>,
                  season_test  |-> <<frame.chi2_season, frame.p_value_season>>,
                  delay_test   |-> <<frame.statistic, frame.p_value_delay>> ])]

\* the airlines of the data and the numbers of rows an airline has
DataAirlines == {"SV", "FM", "MU"}
RowCounts == {99, 100, 250}

StatisticalAnalysis ==
    /\ pc = "idle"
    /\ \E airline_counts \in [DataAirlines -> RowCounts] :
         \E r \in {statistical_analysis([airline_counts |-> airline_counts])} :
             /\ call' = [op |-> "statistical_analysis",
                         df |-> [airline_counts |-> airline_counts]]
             /\ locals' = NoLocals @@ r.locals
             /\ outcome' = r.outcome
    /\ pc' = "returned"
    /\ UNCHANGED <<self, threads>>

\* the caller takes the outcome and goes on to its next call
Return ==
    /\ pc = "returned"
    /\ pc' = "idle"
    /\ call' = NoCall
    /\ locals' = NoLocals
    /\ outcome' = NoOutcome
    /\ UNCHANGED <<self, threads>>

Next ==
    \/ CalculatePremium
    \/ GetAirlineMultiplier
    \/ GetHourMultiplier
    \/ GetDayMultiplier
    \/ GetSeasonMultiplier
    \/ GetAirportMultiplier
    \/ GetPricingRecommendations
    \/ DemonstratePricingModel
    \/ CleanAndPrepareData
    \/ HourCategory
    \/ StatisticalAnalysis
    \/ Return

Spec == Init /\ [][Next]_vars

TypeOK == pc \in {"idle", "returned"}

(***************************************************************************)
(* The pricing arithmetic alone (lines 146-164) on six multipliers drawn   *)
(* from a set that holds the two thresholds 0.80 and 1.20.                 *)
(***************************************************************************)
MultiplierValues == {60, 80, 120, 150}

InitCombine ==
    /\ self = NewModel
    /\ pc = "idle"
    /\ \E ms \in MultiplierValues \X MultiplierValues \X MultiplierValues
                 \X MultiplierValues \X MultiplierValues \X MultiplierValues :
         call = [op |-> "price", multipliers |-> ms]
    /\ locals = NoLocals
    /\ outcome = NoOutcome
    /\ threads = NoThreads

Combine ==
    /\ pc = "idle"
    /\ call.op = "price"
    /\ locals' = [lookups |-> << >>]
                 @@ Price(self, call.multipliers[1], call.multipliers[2],
                          call.multipliers[3], call.multipliers[4],
                          call.multipliers[5], call.multipliers[6], None)
    /\ pc' = "returned"
    /\ UNCHANGED <<self, call, outcome, threads>>

NextCombine == Combine

SpecCombine == InitCombine /\ [][NextCombine]_vars

(***************************************************************************)
(* The pricing arithmetic priced again after one of the six multipliers    *)
(* has been raised and the other five kept: the caller keeps the earlier   *)
(* multipliers and what they were priced to in call.before.                *)
(***************************************************************************)
RaisedValues == {60, 80, 120}

InitRaise ==
    /\ self = NewModel
    /\ pc = "idle"
    /\ \E ms \in RaisedValues \X RaisedValues \X RaisedValues
                 \X RaisedValues \X RaisedValues \X RaisedValues :
         call = [op |-> "price", multipliers |-> ms]
    /\ locals = NoLocals
    /\ outcome = NoOutcome
    /\ threads = NoThreads

PriceRaised ==
    /\ pc = "returned"
    /\ call.op = "price"
    /\ \E i \in 1..6 : \E v \in RaisedValues :
         /\ v > call.multipliers[i]
         /\ \E ms \in {[call.multipliers EXCEPT ![i] = v]} :
              /\ call' = [ op          |-> "price",
                           multipliers |-> ms,
                           before      |-> [ multipliers |-> call.multipliers,
                                             raised      |-> i,
                                             priced      |-> locals ] ]
              /\ locals' = [lookups |-> << >>]
                           @@ Price(self, ms[1], ms[2], ms[3], ms[4], ms[5], ms[6], None)
    /\ UNCHANGED <<self, pc, outcome, threads>>

NextRaise ==
    \/ Combine
    \/ PriceRaised

SpecRaise == InitRaise /\ [][NextRaise]_vars


(***************************************************************************)
(* Calls of calculate_premium from several threads on the one instance.    *)
(* A call runs in four steps, between which the other threads may run:     *)
(* parsing the date (lines 131-136), the six lookups (139-144), the        *)
(* pricing (147-164) and the building of the result (166-187).  The        *)
(* lookups read the tables of self and the pricing reads                   *)
(* self.base_premium; everything else is local to the call.                *)
(***************************************************************************)
ConcurrentCalls ==
    { <<<<"SV", "HKG", "SUB", IsoDate(2024, 7, 21), 3>>, None>>,
      <<<<"SV", "HKG", "SUB", IsoDate(2024, 7, 21), 3>>, Some(12344)>>,
      <<<<"default", "HKG", "default", IsoDate(2024, 1, 15), 14>>, None>>,
      <<<<"ZZ", "SUB", "PVG", << >>, 25>>, Some(0)>>,
      <<<<"FM", "HKG", "PVG", NotADate, 11>>, None>> }

InitThreads ==
    /\ self = NewModel
    /\ pc = "idle"
    /\ call = NoCall
    /\ locals = NoLocals
    /\ outcome = NoOutcome
    /\ threads = NoThreads

ThreadCall(t) ==
    /\ threads[t].pc = "idle"
    /\ \E c \in ConcurrentCalls :
         LET args == [ op                |-> "calculate_premium",
                       airline_code      |-> c[1][1],
                       departure_airport |-> c[1][2],
                       arrival_airport   |-> c[1][3],
                       flight_date       |-> c[1][4],
                       flight_hour       |-> c[1][5],
                       base_premium      |-> c[2] ]
             parsed == to_datetime(c[1][4])
         IN  threads' = [threads EXCEPT ![t] =
                 IF parsed.raised
                 THEN [pc |-> "done", call |-> args, locals |-> NoLocals,
                       outcome |-> Raised("ValueError")]
                 ELSE [pc |-> "parsed", call |-> args,
                       locals |-> [lookups |-> << >>, flight_date |-> parsed.value],
                       outcome |-> NoOutcome]]
    /\ UNCHANGED <<self, pc, call, locals, outcome>>

ThreadLookUp(t) ==
    /\ threads[t].pc = "parsed"
    /\ threads' = [threads EXCEPT
           ![t].pc = "looked",
           ![t].locals = LookUp(self, threads[t].call.airline_code,
                                threads[t].call.departure_airport,
                                threads[t].call.arrival_airport,
                                threads[t].locals.flight_date,
                                threads[t].call.flight_hour)]
    /\ UNCHANGED <<self, pc, call, locals, outcome>>

ThreadPrice(t) ==
    /\ threads[t].pc = "looked"
    /\ threads' = [threads EXCEPT
           ![t].pc = "priced",
           ![t].locals = PriceLookedUp(self, threads[t].locals,
                                       threads[t].call.base_premium)]
    /\ self' = ModelAfterCall(self, threads[t].call.base_premium)
    /\ UNCHANGED <<pc, call, locals, outcome>>

ThreadBuild(t) ==
    /\ threads[t].pc = "priced"
    /\ threads' = [threads EXCEPT
           ![t].pc = "done",
           ![t].outcome = BuildResult(threads[t].locals,
                                      threads[t].call.airline_code,
                                      threads[t].call.departure_airport,
                                      threads[t].call.arrival_airport,
                                      threads[t].call.flight_hour)]
    /\ UNCHANGED <<self, pc, call, locals, outcome>>

\* the thread takes the outcome and is free for its next call
ThreadReturn(t) ==
    /\ threads[t].pc = "done"
    /\ threads' = [threads EXCEPT ![t] = IdleThread]
    /\ UNCHANGED <<self, pc, call, locals, outcome>>

NextThreads ==
    \E t \in Threads :
        \/ ThreadCall(t)
        \/ ThreadLookUp(t)
        \/ ThreadPrice(t)
        \/ ThreadBuild(t)
        \/ ThreadReturn(t)

SpecThreads == InitThreads /\ [][NextThreads]_vars

(***************************************************************************)
(* Properties of calculate_premium and of the lookups.                     *)
(***************************************************************************)
IsPremiumCall == call.op = "calculate_premium"

\* the call got as far as the lookups
Evaluated == IsPremiumCall /\ locals.lookups # << >>

HasResult == IsPremiumCall /\ outcome.kind = "returned"

\* the date argument names a calendar date
DateIsValid(s) == ~to_datetime(s).raised /\ ~to_datetime(s).value.nat

\* C1: a lookup of a key that is absent from its table does not raise and
\* returns the default of that table: 0.67 for an airline, 0.80 for an hour,
\* 1.00 for an airport, a weekday and a season; so a call with unknown codes
\* and an untabulated hour still returns a result.
C1_AbsentKeyGivesDefault ==
    /\ Evaluated =>
         /\ K_str(call.airline_code) \notin DOMAIN self.airline_multipliers
              => locals.airline_mult = 67
         /\ K_int(call.flight_hour) \notin DOMAIN self.hour_multipliers
              => locals.hour_mult = 80
         /\ locals.day_of_week \notin DOMAIN self.day_multipliers
              => locals.day_mult = 100
         /\ K_str(locals.season) \notin DOMAIN self.season_multipliers
              => locals.season_mult = 100
         /\ K_str(call.departure_airport) \notin DOMAIN self.airport_multipliers
              => locals.dept_mult = 100
         /\ K_str(call.arrival_airport) \notin DOMAIN self.airport_multipliers
              => locals.arr_mult = 100
    /\ (IsPremiumCall /\ DateIsValid(call.flight_date)) => outcome.kind = "returned"
    /\ (call.op = "get_airline_multiplier" /\ call.key \notin DOMAIN self.airline_multipliers)
         => outcome = Returned(67)
    /\ (call.op = "get_hour_multiplier" /\ call.key \notin DOMAIN self.hour_multipliers)
         => outcome = Returned(80)
    /\ (call.op = "get_day_multiplier" /\ call.key \notin DOMAIN self.day_multipliers)
         => outcome = Returned(100)
    /\ (call.op = "get_season_multiplier" /\ call.key \notin DOMAIN season_map)
         => outcome = Returned(100)
    /\ (call.op = "get_airport_multiplier" /\ call.key \notin DOMAIN self.airport_multipliers)
         => outcome = Returned(100)

\* a flight of an unknown airline between two untabulated airports at an
\* untabulated hour has been priced with the three defaults
C1_Witness ==
    /\ HasResult
    /\ call.airline_code = "ZZ"
    /\ call.departure_airport = "HKG"
    /\ call.arrival_airport = "default"
    /\ call.flight_hour = 25
    /\ outcome.value.multipliers.airline = 670
    /\ outcome.value.multipliers.hour = 800
    /\ outcome.value.multipliers.departure_airport = 1000
    /\ outcome.value.multipliers.arrival_airport = 1000

\* c is the sixth root of p (units of 10^-12) in ten-thousandths, rounded down
IsSixthRoot(c, p) ==
    /\ BigLeq(BigPow6(BigFromNat(c)), BigMul(p, TenTo12))
    /\ ~BigLeq(BigPow6(BigFromNat(c + 1)), BigMul(p, TenTo12))

\* C3: the combined multiplier is the geometric mean of the six multipliers
\* looked up for the flight's airline, hour, weekday, month, departure and
\* arrival airport, each taken once: its sixth power is their product.
C3_GeometricMean ==
    Evaluated =>
        IsSixthRoot(locals.combined_multiplier,
                    Product6(get_airline_multiplier(self, call.airline_code),
                             get_hour_multiplier(self, K_int(call.flight_hour)),
                             get_day_multiplier(self, locals.day_of_week),
                             get_season_multiplier(self, locals.month),
                             get_airport_multiplier(self, call.departure_airport),
                             get_airport_multiplier(self, call.arrival_airport)))

\* a priced flight whose departure and arrival multipliers differ
C3_Witness ==
    /\ HasResult
    /\ call.airline_code = "FM"
    /\ call.departure_airport = "SUB"
    /\ call.arrival_airport = "PVG"
    /\ locals.dept_mult = 780
    /\ locals.arr_mult = 307
    /\ locals.combined_multiplier > 10000

\* the base the call has to use, in thousandths
BaseToUse ==
    IF call.base_premium = None THEN 11860 ELSE call.base_premium[1]

\* q cents is b thousandths times the sixth root of p, rounded to the cent
IsRoundedAmount(q, b, p) ==
    /\ q >= 0
    /\ q > 0 => HalfReached(q, b, p)
    /\ ~HalfReached(q + 1, b, p)

PremiumIsBaseTimesCombined ==
    /\ BaseToUse >= 0 =>
         IsRoundedAmount(outcome.value.premium, BaseToUse, locals.product)
    /\ BaseToUse < 0 =>
         IsRoundedAmount(0 - outcome.value.premium, 0 - BaseToUse, locals.product)

\* C4 as stated: the premium is base x combined for the override or 11.86,
\* and the base_premium field is exactly the base used.
C4_BaseFieldIsBaseUsed ==
    HasResult =>
        /\ PremiumIsBaseTimesCombined
        /\ outcome.value.base_premium * 10 = BaseToUse

\* C4 amended: the premium is base x combined (to the cent) for the override
\* or 11.86, and the base_premium field is the base used rounded to two
\* decimals.
C4_PremiumFromBase ==
    HasResult =>
        /\ PremiumIsBaseTimesCombined
        /\ outcome.value.base_premium = RoundToCents(BaseToUse)
        /\ AbsInt(outcome.value.base_premium * 10 - BaseToUse) <= 5

\* a flight priced with an override of 12.344 whose base field is 12.34
C4_Witness ==
    /\ HasResult
    /\ call.base_premium = Some(12344)
    /\ outcome.value.base_premium = 1234
    /\ outcome.value.premium > 1234

\* C5: a call with an hour outside 0..23 fails with InvalidInput.
C5_InvalidHourRaises ==
    (IsPremiumCall /\ call.flight_hour \notin 0..23) =>
        (outcome.kind = "raised" /\ outcome.error = "InvalidInput")

\* C6: a call with a base premium override that is zero or negative fails
\* with InvalidInput, and no returned premium is zero or negative.
C6_NonPositiveBaseRaises ==
    /\ (IsPremiumCall /\ call.base_premium # None /\ call.base_premium[1] <= 0) =>
           (outcome.kind = "raised" /\ outcome.error = "InvalidInput")
    /\ HasResult => outcome.value.premium > 0

ResultFields ==
    {"premium", "base_premium", "combined_multiplier", "risk_category",
     "multipliers", "flight_details"}

MultiplierFields ==
    {"airline", "hour", "day", "season", "departure_airport", "arrival_airport"}

DetailFields ==
    {"airline", "departure", "arrival", "date", "hour", "day_of_week"}

IsCompleteResult(v) ==
    /\ DOMAIN v = ResultFields
    /\ DOMAIN v.multipliers = MultiplierFields
    /\ DOMAIN v.flight_details = DetailFields

AllOrNothing ==
    /\ IsPremiumCall =>
         \/ outcome.kind = "raised"
         \/ outcome.kind = "returned" /\ IsCompleteResult(outcome.value)
    /\ self = NewModel

\* C7 as stated: a date string that names no calendar date makes the call
\* fail before any lookup is made, with the model unchanged; every call
\* returns a complete result or fails.
C7_FailsBeforeAnyLookup ==
    /\ AllOrNothing
    /\ (IsPremiumCall /\ ~DateIsValid(call.flight_date)) =>
           (outcome.kind = "raised" /\ locals.lookups = << >>)

\* C7 amended: a date string that names no calendar date makes the call fail
\* with the model unchanged, before any lookup when the parser rejects the
\* string; every call returns a complete result or fails.
C7_FailsWithoutResult ==
    /\ AllOrNothing
    /\ (IsPremiumCall /\ ~DateIsValid(call.flight_date)) => outcome.kind = "raised"
    /\ (IsPremiumCall /\ to_datetime(call.flight_date).raised) => locals.lookups = << >>

\* the empty date string: parsed to NaT, the six lookups made, then the failure
C7_Witness ==
    /\ IsPremiumCall
    /\ call.flight_date = << >>
    /\ outcome.kind = "raised"
    /\ Len(locals.lookups) = 6

\* the season the claim gives a month
SeasonOf(mo) ==
    IF mo \in {12, 1, 2} THEN "Winter"
    ELSE IF mo \in {3, 4, 5} THEN "Spring"
    ELSE IF mo \in {6, 7, 8} THEN "Summer"
    ELSE "Fall"

C9_HighRiskExample ==
    ( /\ IsPremiumCall
      /\ call.airline_code = "SV"
      /\ call.departure_airport = "HKG"
      /\ call.arrival_airport = "SUB"
      /\ call.flight_date = <<"2", "0", "2", "4", "-", "0", "7", "-", "2", "1">>
      /\ call.flight_hour = 3
      /\ call.base_premium = None ) =>
        /\ outcome.kind = "returned"
        /\ locals.day_of_week = K_int(6)
        /\ locals.month = K_int(7)
        /\ outcome.value.multipliers =
             [ airline |-> 44990, hour |-> 3640, day |-> 1200, season |-> 1350,
               departure_airport |-> 1000, arrival_airport |-> 7800 ]
        /\ IsSixthRoot(locals.combined_multiplier,
                       Product6(4499, 364, 120, 135, 100, 780))
        /\ locals.combined_multiplier = 35697
        /\ outcome.value.combined_multiplier = 3570
        /\ IsRoundedAmount(outcome.value.premium, 11860,
                           Product6(4499, 364, 120, 135, 100, 780))
        /\ outcome.value.premium = 4234
        /\ outcome.value.base_premium = 1186
        /\ outcome.value.risk_category = "High Risk"

C9_Witness ==
    /\ HasResult
    /\ call.airline_code = "SV"
    /\ call.departure_airport = "HKG"
    /\ call.arrival_airport = "SUB"
    /\ call.flight_date = IsoDate(2024, 7, 21)
    /\ call.flight_hour = 3
    /\ call.base_premium = None
    /\ outcome.value.flight_details.day_of_week = "Sunday"
    /\ outcome.value.risk_category = "High Risk"

Priced == call.op = "price" /\ pc = "returned"

FreshOutcome(c) ==
    calculate_premium(NewModel, c.airline_code, c.departure_airport,
                      c.arrival_airport, c.flight_date, c.flight_hour,
                      c.base_premium).outcome

\* C10: whatever calls ran before or run at the same time on the instance,
\* a finished call has the outcome its arguments alone determine (that of
\* the same call on a fresh instance), so two finished calls with the same
\* arguments have the same outcome.
C10_Deterministic ==
    /\ \A t \in Threads :
         threads[t].pc = "done" => threads[t].outcome = FreshOutcome(threads[t].call)
    /\ \A t1, t2 \in Threads :
         (threads[t1].pc = "done" /\ threads[t2].pc = "done"
            /\ threads[t1].call = threads[t2].call)
         => threads[t1].outcome = threads[t2].outcome

\* two threads have finished the same call and hold the same result
C10_Witness ==
    /\ threads[1].pc = "done"
    /\ threads[2].pc = "done"
    /\ threads[1].call = threads[2].call
    /\ threads[1].call.base_premium = None
    /\ threads[1].outcome.kind = "returned"
    /\ threads[2].outcome.value.premium = 4234

\* the six multipliers have been priced, one of them raised, and priced again
PricedAgain == Priced /\ "before" \in DOMAIN call

\* Low < Medium < High
RiskLevel(category) ==
    IF category = "Low Risk" THEN 1
    ELSE IF category = "Medium Risk" THEN 2
    ELSE 3

\* the sixth power of the unrounded premium b * p^(1/6), for b > 0
PremiumPow6(b, p) == BigMul(BigPow6(BigFromNat(b)), p)

\* C11: when one of six positive multipliers is raised and the other five
\* are kept, the combined multiplier does not decrease, the risk category
\* does not move to a lower level (Low < Medium < High), and the premium for
\* the fixed base 11.86 (unrounded, and as rounded to the cent) does not
\* decrease.
C11_Monotonic ==
    ( /\ PricedAgain
      /\ call.multipliers[call.before.raised] > call.before.multipliers[call.before.raised]
      /\ \A j \in 1..6 : j # call.before.raised =>
             call.multipliers[j] = call.before.multipliers[j]
      /\ \A j \in 1..6 : call.before.multipliers[j] > 0 ) =>
        /\ locals.combined_multiplier >= call.before.priced.combined_multiplier
        /\ RiskLevel(locals.risk_category) >= RiskLevel(call.before.priced.risk_category)
        /\ locals.premium_base = call.before.priced.premium_base
        /\ locals.premium_base > 0
        /\ BigLeq(PremiumPow6(locals.premium_base, call.before.priced.product),
                  PremiumPow6(locals.premium_base, locals.product))
        /\ locals.final_premium >= call.before.priced.final_premium

\* the hour multiplier raised from 0.60 to 0.80 with the other five at 0.80:
\* the combined multiplier rises to 0.8 and the category from Low to Medium
C11_Witness ==
    /\ PricedAgain
    /\ call.before.raised = 2
    /\ call.before.multipliers = <<80, 60, 80, 80, 80, 80>>
    /\ call.multipliers = <<80, 80, 80, 80, 80, 80>>
    /\ call.before.priced.risk_category = "Low Risk"
    /\ locals.risk_category = "Medium Risk"
    /\ locals.combined_multiplier > call.before.priced.combined_multiplier
    /\ locals.final_premium > call.before.priced.final_premium

\* the five multiplier tables of the instance
Tables ==
    [ airline |-> self.airline_multipliers,
      hour    |-> self.hour_multipliers,
      weekday |-> self.day_multipliers,
      season  |-> self.season_multipliers,
      airport |-> self.airport_multipliers ]

AllMultipliersPositive ==
    \A name \in DOMAIN Tables : \A k \in DOMAIN Tables[name] : Tables[name][k] > 0

\* C12 as stated: in every state every stored multiplier is > 0 and each of
\* the five tables (airline, hour, weekday, season, airport) holds an entry
\* under the key 'default'.
C12_DefaultInEveryTable ==
    /\ AllMultipliersPositive
    /\ \A name \in DOMAIN Tables : K_str("default") \in DOMAIN Tables[name]

\* C12 amended: in every state every stored multiplier is > 0; the airline,
\* hour and airport tables hold an entry under the key 'default'; the
\* weekday and season tables hold none, and a lookup of an absent weekday
\* or month returns the positive value 1.00 all the same.
C12_TableInvariant ==
    /\ AllMultipliersPositive
    /\ \A name \in {"airline", "hour", "airport"} :
         K_str("default") \in DOMAIN Tables[name]
    /\ \A name \in {"weekday", "season"} :
         K_str("default") \notin DOMAIN Tables[name]
    /\ (call.op = "get_day_multiplier" /\ call.key \notin DOMAIN self.day_multipliers)
         => (outcome.kind = "returned" /\ outcome.value = 100)
    /\ (call.op = "get_season_multiplier" /\ call.key \notin DOMAIN season_map)
         => (outcome.kind = "returned" /\ outcome.value = 100)
    /\ Evaluated => (locals.day_mult > 0 /\ locals.season_mult > 0)

\* after a lookup of the weekday 7, answered with 1.00 from a table that
\* holds no 'default' entry
C12_Witness ==
    /\ call.op = "get_day_multiplier"
    /\ call.key = K_int(7)
    /\ outcome = Returned(100)
    /\ K_str("default") \notin DOMAIN self.day_multipliers
    /\ AllMultipliersPositive

SeasonNames == {"Winter", "Spring", "Summer", "Fall"}

\* C13: the flight details of every returned result hold the weekday name
\* and the season name of the flight date; the weekday name is that of the
\* weekday index (Monday = 0 .. Sunday = 6) used for the day multiplier, and
\* the season name is the one of Winter, Spring, Summer, Fall used for the
\* season multiplier.
C13_DetailsNameWeekdayAndSeason ==
    HasResult =>
        /\ "day_of_week" \in DOMAIN outcome.value.flight_details
        /\ outcome.value.flight_details.day_of_week = DayNames[locals.day_of_week[2] + 1]
        /\ locals.day_mult = get_day_multiplier(self, locals.day_of_week)
        /\ "season" \in DOMAIN outcome.value.flight_details
        /\ outcome.value.flight_details.season \in SeasonNames
        /\ outcome.value.flight_details.season = locals.season

\* C14: the departure multiplier comes from a mapping of its own in which
\* no code is tabulated: for every departure code, the codes tabulated as
\* high-risk arrival airports (SUB, PVG) included, the departure multiplier
\* used and returned by calculate_premium is the default 1.00.
C14_DepartureAlwaysDefault ==
    /\ Evaluated => locals.dept_mult = 100
    /\ HasResult => outcome.value.multipliers.departure_airport = 1000

\* C15: no call changes the instance: after any sequence of calls of
\* calculate_premium, of the five lookups and of
\* get_pricing_recommendations the five tables, base_premium (11.86) and
\* claim_amount (800) are those of __init__; an override passed to a call is
\* not kept, so every call without override is priced from 11.86.
C15_ReadOnly ==
    /\ self.airline_multipliers = airline_multipliers_init
    /\ self.hour_multipliers = hour_multipliers_init
    /\ self.day_multipliers = day_multipliers_init
    /\ self.season_multipliers = season_multipliers_init
    /\ self.airport_multipliers = airport_multipliers_init
    /\ self.base_premium = 11860
    /\ self.claim_amount = 800
    /\ (Evaluated /\ call.base_premium = None) => locals.premium_base = 11860
    /\ (HasResult /\ call.base_premium = None) => outcome.value.base_premium = 1186
    /\ call.op = "get_pricing_recommendations" =>
         outcome = Returned([base_premium |-> 11860, claim_amount |-> 800])

\* a call with the override 12.344 has returned a result priced from it,
\* and the instance still holds 11.86
C15_Witness ==
    /\ HasResult
    /\ call.base_premium = Some(12344)
    /\ locals.premium_base = 12344
    /\ self.base_premium = 11860
    /\ self = NewModel

\* C16: each of the three example flights of demonstrate_pricing_model is
\* priced into the risk category its name announces: the 'Low-Risk Flight'
\* into Low Risk, the 'Medium-Risk Flight' into Medium Risk and the
\* 'High-Risk Flight' into High Risk.
C16_ExamplesPricedAsNamed ==
    call.op = "demonstrate_pricing_model" =>
        /\ outcome.kind = "returned"
        /\ outcome.value[1].name = "Low-Risk Flight"
        /\ outcome.value[1].result.risk_category = "Low Risk"
        /\ outcome.value[2].name = "Medium-Risk Flight"
        /\ outcome.value[2].result.risk_category = "Medium Risk"
        /\ outcome.value[3].name = "High-Risk Flight"
        /\ outcome.value[3].result.risk_category = "High Risk"

Prepared == call.op = "clean_and_prepare_data" /\ outcome.kind = "returned"

\* the delay of the raw row, in tenths of an hour, a missing or non-numeric
\* one counted as 0
DelayOrZero == IF call.row.delay_time.kind = "num" THEN call.row.delay_time.value ELSE 0

\* C17: a prepared row is is_high_risk iff its delay (a missing or
\* non-numeric delay counted as 0) is strictly more than 3 hours or its
\* is_claim is 1; its risk_category is 'High Risk' iff is_high_risk and
\* 'Low Risk' otherwise; a delay of exactly 3 hours without claim is 'Low
\* Risk', and every row of the delay category '>3h' is 'High Risk'.
C17_HighRiskLabel ==
    Prepared =>
        /\ outcome.value.delay_time = DelayOrZero
        /\ outcome.value.is_high_risk <=> (DelayOrZero > 30 \/ call.row.is_claim = 1)
        /\ outcome.value.risk_category \in {"High Risk", "Low Risk"}
        /\ outcome.value.risk_category = "High Risk" <=> outcome.value.is_high_risk
        /\ (DelayOrZero = 30 /\ call.row.is_claim # 1) =>
             outcome.value.risk_category = "Low Risk"
        /\ outcome.value.delay_category = ">3h" =>
             outcome.value.risk_category = "High Risk"

\* a row with a delay of exactly 3 hours and no claim, labelled Low Risk in
\* the delay category 2-3h
C17_Witness ==
    /\ Prepared
    /\ call.row.delay_time = Num(30)
    /\ call.row.is_claim = 0
    /\ outcome.value.is_high_risk = FALSE
    /\ outcome.value.risk_category = "Low Risk"
    /\ outcome.value.delay_category = "2-3h"

\* C18: every row with std_hour in 0..23, hour 0 included, gets exactly one
\* of the four time-of-day categories and is counted in the cell of that
\* category of the time-of-day contingency table.
C18_EveryHourCategorised ==
    (call.op = "hour_category" /\ call.row.std_hour \in 0..23) =>
        /\ outcome.kind = "returned"
        /\ \E i \in 1..4 : outcome.value.hour_category = hour_labels[i]
        /\ outcome.value.cell =
             Some(<<outcome.value.hour_category, call.row.is_high_risk>>)

\* the category the thresholds give a combined multiplier r in thousandths
CategoryOfReported(r) ==
    IF r < 800 THEN "Low Risk"
    ELSE IF r < 1200 THEN "Medium Risk"
    ELSE "High Risk"

\* C19: in every returned result the risk_category is the one the
\* thresholds < 0.8, [0.8, 1.2), >= 1.2 give the returned combined_multiplier
\* (the value rounded to 3 decimals).
C19_CategoryAgreesWithReported ==
    HasResult =>
        outcome.value.risk_category = CategoryOfReported(outcome.value.combined_multiplier)

\* the six multipliers a pricing combined, in hundredths
SixMultipliers ==
    IF Priced THEN call.multipliers
    ELSE <<locals.airline_mult, locals.hour_mult, locals.day_mult,
           locals.season_mult, locals.dept_mult, locals.arr_mult>>

\* C20: the combined multiplier lies between the smallest and the largest of
\* the six multipliers it combines, and equals m when all six equal m; so
\* it is never above the largest of the six.
C20_BetweenMinAndMax ==
    (Priced \/ Evaluated) =>
        /\ \E i \in 1..6 : SixMultipliers[i] * 100 <= locals.combined_multiplier
        /\ \E i \in 1..6 : locals.combined_multiplier <= SixMultipliers[i] * 100
        /\ (\A i \in 1..6 : SixMultipliers[i] = SixMultipliers[1]) =>
             locals.combined_multiplier = SixMultipliers[1] * 100

\* one factor of 1.50 among five of 0.60: the combined multiplier is above
\* 0.60 and far below 1.50
C20_Witness ==
    /\ Priced
    /\ call.multipliers = <<150, 60, 60, 60, 60, 60>>
    /\ locals.combined_multiplier > 6000
    /\ locals.combined_multiplier < 8000

\* six equal multipliers of 1.50 combined to 1.50
C20_WitnessEqual ==
    /\ Priced
    /\ call.multipliers = <<150, 150, 150, 150, 150, 150>>
    /\ locals.combined_multiplier = 15000

TestNames == {"airline_test", "hour_test", "dow_test", "season_test", "delay_test"}

\* C21: statistical_analysis returns the five test results (airline_test,
\* hour_test, dow_test, season_test, delay_test) for every data frame, also
\* for one in which fewer than two airlines have 100 rows or more and the
\* airline test is skipped: no later step reads a name that only the
\* airline test binds.
C21_AlwaysReturnsFiveTests ==
    call.op = "statistical_analysis" =>
        /\ outcome.kind = "returned"
        /\ DOMAIN outcome.value = TestNames
====
